---- MODULE Spec2Model ----
(***************************************************************************)
(* Model of teii.finance: FinanceClient (finance.py) and                   *)
(* TimeSeriesFinanceClient (timeseries.py).                                *)
(*                                                                         *)
(* Spec      : construction of a client, one step per interaction with the *)
(*             transport (requests.get) and one step per pipeline stage.   *)
(* SpecFrame : _build_data_frame applied to one validated payload drawn    *)
(*             from a larger set of payloads.                              *)
(*                                                                         *)
(* SpecQuery : the methods of a constructed client called in any order on  *)
(*             a few clients of zero to MaxTickers tickers.                *)
(* SpecDaily, SpecYearly, SpecVariation : the date-range, the year-range   *)
(*             and the variation methods on clients whose table was built  *)
(*             from every payload of up to MaxDays records.                *)
(*                                                                         *)
(* Numbers are kept in tenths: the wire string "1.5" is the number 15.     *)
(* pandas is modelled as pinned by setup.py (pandas==1.2.3).               *)
(***************************************************************************)
EXTENDS Integers, Sequences, FiniteSets, TLC

VARIABLES
    ticker,          \* self._ticker: the list of tickers given to the constructor
    api_key,         \* the api_key argument of the constructor
    env_key,         \* os.getenv("TEII_FINANCE_API_KEY")
    _api_key,        \* self._api_key
    to_iterate,      \* _query_api: the list of URL parameters, one per ticker
    response,        \* _query_api: the list of collected responses
    requests_log,    \* the URLs requests.get was called with, in call order
    _json_metadata,  \* self._json_metadata
    _json_data,      \* self._json_data
    json_calls,      \* number of responses whose json() was called
    _data_frame,     \* self._data_frame
    pc,              \* position of the constructor
    err,             \* the exception the constructor raised, if any
    trace,           \* the stages the constructor entered, in order
    call,            \* the last method called on the constructed client
    result,          \* what that call returned or raised
    path2file        \* to_csv: the content of the file at path2file

vars == <<ticker, api_key, env_key, _api_key, to_iterate, response, requests_log,
          _json_metadata, _json_data, json_calls, _data_frame, pc, err, trace,
          call, result, path2file>>

(***************************************************************************)
(* Bounds                                                                  *)
(***************************************************************************)
MaxTickers == 2
MaxRows == 2

(***************************************************************************)
(* Python values of the key arguments                                      *)
(***************************************************************************)
PyNone == [type |-> "NoneType", val |-> ""]
PyStr(s) == [type |-> "str", val |-> s]
PyInt(s) == [type |-> "int", val |-> s]

\* Python truth value: None, "" and 0 are false.
Truthy(x) ==
    CASE x.type = "NoneType" -> FALSE
      [] x.type = "str" -> x.val # ""
      [] x.type = "int" -> x.val # "0"

IsStr(x) == x.type = "str"

ApiKeyArgs == {PyNone, PyStr(""), PyStr("KEY"), PyInt("123")}
EnvValues == {PyNone, PyStr(""), PyStr("ENVKEY")}

Tickers == {"IBM", "AMZN"}
TickerLists == UNION {[1..n -> Tickers] : n \in 0..MaxTickers}

(***************************************************************************)
(* Exceptions                                                              *)
(***************************************************************************)
NoError == [kind |-> "none", msg |-> ""]
Raise(kind, msg) == [kind |-> kind, msg |-> msg]

MsgMalformed == "JSON malformed, unable to create DataFrame from data"
MsgColumns == "JSON columns name do not match, error while formatting"
MsgTypes == "Cannot convert to expected datatypes, error while formatting"
MsgIndex == "JSON index cannot be converted to datetime, error in format"
MsgSymbol == "Metadata field '2. Symbol' not found"
NormalizerMsgs == {MsgMalformed, MsgColumns, MsgTypes, MsgIndex}

(***************************************************************************)
(* FieldSpec                                                               *)
(***************************************************************************)
FieldLabels ==
    {"1. open", "2. high", "3. low", "4. close", "5. adjusted close",
     "6. volume", "7. dividend amount", "8. split coefficient"}

\* _data_field2name_type[label][0]
FieldName(label) ==
    CASE label = "1. open" -> "open"
      [] label = "2. high" -> "high"
      [] label = "3. low" -> "low"
      [] label = "4. close" -> "close"
      [] label = "5. adjusted close" -> "aclose"
      [] label = "6. volume" -> "volume"
      [] label = "7. dividend amount" -> "dividend"
      [] label = "8. split coefficient" -> "splitc"

\* _data_field2name_type[label][1]
FieldType(label) ==
    IF label \in {"6. volume", "8. split coefficient"} THEN "int" ELSE "float"

CanonicalNames == {FieldName(l) : l \in FieldLabels}
TypeOfName(name) == FieldType(CHOOSE l \in FieldLabels : FieldName(l) = name)

(***************************************************************************)
(* Wire format: JSON values as the transport returns them                  *)
(***************************************************************************)
MetaKey == "Meta Data"
DataKey == "Time Series (Daily)"
SymbolKey == "2. Symbol"

\* A JSON object is a function from its keys; a JSON object whose key order
\* matters (the per-date records) is a sequence of <<key, value>> pairs.
EmptyObject == [k \in {} |-> ""]
MetaWith(symbol) == [k \in {SymbolKey} |-> symbol]
BodyBoth(m, d) == [k \in {MetaKey, DataKey} |-> IF k = MetaKey THEN m ELSE d]
BodyMetaOnly(m) == [k \in {MetaKey} |-> m]
BodyDataOnly(d) == [k \in {DataKey} |-> d]

\* What response.json() gives: a parsed body, or an exception.
Json(b) == [ok |-> TRUE, value |-> b]
NotJson == [ok |-> FALSE, value |-> EmptyObject]

\* The value under the data key: an object of per-date records, or some
\* other JSON value (here a string).
DataDict(items) == [kind |-> "dict", items |-> items]
DataNotDict == [kind |-> "str", items |-> <<>>]

\* Numbers on the wire are strings; float() of each, in tenths.
NumStrs == {"0", "1", "1.5", "2"}
IsNumStr(s) == s \in NumStrs
ParseFloat(s) ==
    CASE s = "0" -> 0
      [] s = "1" -> 10
      [] s = "1.5" -> 15
      [] s = "2" -> 20

\* Date strings on the wire and the datetime64 each is cast to.
DateStrs == {"2020-01-02", "2020-01-01", "2020-01-01T00:00:00", "not-a-date"}
ParseDate(s) ==
    CASE s = "2020-01-01" -> [ok |-> TRUE, date |-> <<2020, 1, 1>>]
      [] s = "2020-01-01T00:00:00" -> [ok |-> TRUE, date |-> <<2020, 1, 1>>]
      [] s = "2020-01-02" -> [ok |-> TRUE, date |-> <<2020, 1, 2>>]
      [] s = "2019-12-31" -> [ok |-> TRUE, date |-> <<2019, 12, 31>>]
      [] s = "2021-03-01" -> [ok |-> TRUE, date |-> <<2021, 3, 1>>]
      [] OTHER -> [ok |-> FALSE, date |-> <<0, 0, 0>>]

DateLt(a, b) ==
    \/ a[1] < b[1]
    \/ a[1] = b[1] /\ a[2] < b[2]
    \/ a[1] = b[1] /\ a[2] = b[2] /\ a[3] < b[3]

(***************************************************************************)
(* pandas: the frame operations _build_data_frame uses                     *)
(***************************************************************************)
NaN == [tag |-> "nan", v |-> 0, s |-> ""]
Num(x) == [tag |-> "num", v |-> x, s |-> ""]
Obj(str) == [tag |-> "obj", v |-> 0, s |-> str]

\* pd.DataFrame.from_dict(jData, orient='index', dtype=float): one row per
\* key, one column per label of any record, NaN where a record lacks the
\* label; a column is cast to float when every value in it is numeric and
\* is left as objects otherwise.
FromDict(items) ==
    LET n == Len(items)
        cols == UNION {DOMAIN items[i][2] : i \in 1..n}
        ColNumeric(c) ==
            \A i \in 1..n : c \in DOMAIN items[i][2] => IsNumStr(items[i][2][c])
        Cell(i, c) ==
            IF c \notin DOMAIN items[i][2] THEN NaN
            ELSE IF ColNumeric(c) THEN Num(ParseFloat(items[i][2][c]))
            ELSE Obj(items[i][2][c])
    IN  [columns |-> cols,
         rows |-> [i \in 1..n |-> [key |-> items[i][1],
                                    cells |-> [c \in cols |-> Cell(i, c)]]]]

\* data.rename(columns={label: name}): labels of FieldSpec get their name,
\* every other label is kept; a label of FieldSpec that is absent is ignored.
RenameColumn(c) == IF c \in FieldLabels THEN FieldName(c) ELSE c

Rename(df) ==
    LET cols == {RenameColumn(c) : c \in df.columns}
        Old(name) == CHOOSE c \in df.columns : RenameColumn(c) = name
    IN  [columns |-> cols,
         rows |-> [i \in 1..Len(df.rows) |->
                     [key |-> df.rows[i].key,
                      cells |-> [name \in cols |-> df.rows[i].cells[Old(name)]]]]]

\* astype of one column: float keeps NaN, int refuses it; an object column
\* holds a string that is no number and converts to neither.
CellConverts(cell, type) ==
    \/ cell.tag = "num"
    \/ cell.tag = "nan" /\ type = "float"

\* float -> int truncates.
ConvertCell(cell, type) ==
    IF type = "int" THEN Num((cell.v \div 10) * 10) ELSE cell

\* data.astype(dtype={name: type}) raises KeyError for a name that is no
\* column and ValueError for a column that does not convert.
AsTypeOK(df) ==
    /\ CanonicalNames \subseteq df.columns
    /\ \A name \in CanonicalNames : \A i \in 1..Len(df.rows) :
           CellConverts(df.rows[i].cells[name], TypeOfName(name))

AsType(df) ==
    [columns |-> df.columns,
     rows |-> [i \in 1..Len(df.rows) |->
                 [key |-> df.rows[i].key,
                  cells |-> [name \in df.columns |->
                               IF name \in CanonicalNames
                               THEN ConvertCell(df.rows[i].cells[name], TypeOfName(name))
                               ELSE df.rows[i].cells[name]]]]]

\* data.index.astype("datetime64[ns]")
IndexOK(df) == \A i \in 1..Len(df.rows) : ParseDate(df.rows[i].key).ok

SetIndex(df) ==
    [columns |-> df.columns,
     rows |-> [i \in 1..Len(df.rows) |->
                 [index |-> ParseDate(df.rows[i].key).date,
                  cells |-> df.rows[i].cells]]]

\* data.sort_index(ascending=True): rows with equal index keep their order.
RECURSIVE InsertRow(_, _)
InsertRow(sorted, r) ==
    IF sorted = <<>> THEN <<r>>
    ELSE IF DateLt(r.index, sorted[Len(sorted)].index)
         THEN Append(InsertRow(SubSeq(sorted, 1, Len(sorted) - 1), r), sorted[Len(sorted)])
         ELSE Append(sorted, r)

RECURSIVE SortRows(_)
SortRows(rows) ==
    IF rows = <<>> THEN <<>>
    ELSE InsertRow(SortRows(SubSeq(rows, 1, Len(rows) - 1)), rows[Len(rows)])

SortIndex(df) == [columns |-> df.columns, rows |-> SortRows(df.rows)]

NoFrame == [columns |-> {}, rows |-> <<>>]

\* One iteration of the loop of _build_data_frame.
BuildFrame(jData) ==
    IF jData.kind # "dict"
    THEN [ok |-> FALSE, msg |-> MsgMalformed, frame |-> NoFrame]
    ELSE LET renamed == Rename(FromDict(jData.items))
         IN  IF ~AsTypeOK(renamed)
             THEN [ok |-> FALSE, msg |-> MsgTypes, frame |-> NoFrame]
             ELSE IF ~IndexOK(AsType(renamed))
                  THEN [ok |-> FALSE, msg |-> MsgIndex, frame |-> NoFrame]
                  ELSE [ok |-> TRUE, msg |-> "",
                        frame |-> SortIndex(SetIndex(AsType(renamed)))]

(***************************************************************************)
(* Inputs                                                                  *)
(***************************************************************************)
\* A record with the 8 labels of FieldSpec.
GoodRecord(dividend) ==
    [l \in FieldLabels |->
        CASE l = "1. open" -> "1"
          [] l = "2. high" -> "2"
          [] l = "3. low" -> "1"
          [] l = "4. close" -> "1.5"
          [] l = "5. adjusted close" -> "1.5"
          [] l = "6. volume" -> "2"
          [] l = "7. dividend amount" -> dividend
          [] l = "8. split coefficient" -> "1"]

Without(rec, label) == [l \in DOMAIN rec \ {label} |-> rec[l]]
WithField(rec, label, value) ==
    [l \in DOMAIN rec \cup {label} |-> IF l = label THEN value ELSE rec[l]]

ExtraLabel == "9. extra"

\* The records a payload is made of: well-formed ones, ones that lack a
\* label, one with a label FieldSpec does not know, one with a misspelt
\* label, ones with a value that is no number.
Records ==
    {GoodRecord("0"), GoodRecord("1.5")}
    \cup {Without(GoodRecord("0"), l) : l \in {"7. dividend amount", "6. volume"}}
    \cup {WithField(GoodRecord("0"), ExtraLabel, "1")}
    \cup {WithField(Without(GoodRecord("0"), "1. open"), "1. Open", "1")}
    \cup {WithField(GoodRecord("0"), l, "abc") : l \in {"4. close", "6. volume"}}

DistinctKeys(items) ==
    \A i, j \in 1..Len(items) : i # j => items[i][1] # items[j][1]

ItemSeqs ==
    UNION {{items \in [1..k -> DateStrs \X Records] : DistinctKeys(items)} :
           k \in 0..MaxRows}

\* The payloads _build_data_frame is checked on.
DataObjects == {DataNotDict} \cup {DataDict(items) : items \in ItemSeqs}

\* The payloads the transport offers during a construction.
WireData ==
    {DataDict(<< <<"2020-01-02", GoodRecord("0")>> >>),
     DataDict(<< <<"2020-01-02", GoodRecord("1.5")>>, <<"2020-01-01", GoodRecord("0")>> >>),
     DataNotDict}
WireMetas == {EmptyObject} \cup {MetaWith(sym) : sym \in Tickers \cup {"ibm"}}
WireBodies ==
    {NotJson, Json(EmptyObject)}
    \cup {Json(BodyMetaOnly(m)) : m \in WireMetas}
    \cup {Json(BodyDataOnly(d)) : d \in WireData}
    \cup {Json(BodyBoth(m, d)) : m \in WireMetas, d \in WireData}

HTTP_OK == 200

\* What one call of requests.get does: raise, or return a response.
FetchOutcomes ==
    {[raises |-> TRUE, status_code |-> 0, body |-> NotJson],
     [raises |-> FALSE, status_code |-> 404, body |-> NotJson]}
    \cup {[raises |-> FALSE, status_code |-> HTTP_OK, body |-> b] : b \in WireBodies}

(***************************************************************************)
(* FinanceClient: helpers of the constructor                               *)
(***************************************************************************)
FinanceBaseQueryURL == "https://www.alphavantage.co/query?"

\* Mutant: the parameters are built in reverse ticker order.
BuildBaseQueryUrlParamsReversed(tickers, key) ==
    [i \in 1..Len(tickers) |->
        [function |-> "TIME_SERIES_DAILY_ADJUSTED",
         symbol |-> tickers[Len(tickers) + 1 - i],
         outputsize |-> "full", apikey |-> key.val]]

\* _build_base_query_url_params: one parameter string per ticker, in order.
BuildBaseQueryUrlParams(tickers, key) ==
    [i \in 1..Len(tickers) |->
        [function |-> "TIME_SERIES_DAILY_ADJUSTED", symbol |-> tickers[i],
         outputsize |-> "full", apikey |-> key.val]]

\* f"{self._build_base_query_url()}{to_iterate[i]}"
Url(params) == [base |-> FinanceBaseQueryURL, params |-> params]

\* Mutant: the environment variable is never read.
ResolveKeyNoEnv(arg, env) == arg

\* if not self._api_key: self._api_key = os.getenv(...)
ResolveKey(arg, env) == IF ~Truthy(arg) THEN env ELSE arg

\* Mutant: the key is not checked before the requests.
KeyRejectedNever(key) == FALSE

\* the condition under which the constructor raises FinanceClientInvalidAPIKey
KeyRejected(key) == ~Truthy(key) \/ ~IsStr(key)

\* Mutant: assert response[i].status_code, the comparison forgotten.
StatusOKTruthy(r) == r.status_code # 0

\* assert response[i].status_code == 200
StatusOK(r) == r.status_code = HTTP_OK

\* The except clause of _query_api formats response[i] into its message
\* before it raises: with no i-th response that lookup raises IndexError.
QueryHandlerError(resp, i) ==
    IF i + 1 \in 1..Len(resp)
    THEN Raise("FinanceClientAPIError", "Unsuccessful API access")
    ELSE Raise("IndexError", "list index out of range")

\* Mutant: the data is read with a default (dict.get) instead of a lookup
\* that raises, so a body without the data key is accepted.
RECURSIVE ProcessLoopDataDefault(_, _, _, _, _)
ProcessLoopDataDefault(resp, i, metas, datas, calls) ==
    IF i > Len(resp)
    THEN [ok |-> TRUE, metadata |-> metas, data |-> datas, calls |-> calls]
    ELSE LET body == resp[i].body
         IN  IF ~body.ok \/ MetaKey \notin DOMAIN body.value
             THEN [ok |-> FALSE, metadata |-> metas, data |-> datas, calls |-> calls + 1]
             ELSE ProcessLoopDataDefault(resp, i + 1, Append(metas, body.value[MetaKey]),
                      Append(datas, IF DataKey \in DOMAIN body.value
                                    THEN body.value[DataKey] ELSE DataNotDict),
                      calls + 1)

\* The loop of _process_query_response from the i-th response on.
RECURSIVE ProcessLoop(_, _, _, _, _)
ProcessLoop(resp, i, metas, datas, calls) ==
    IF i > Len(resp)
    THEN [ok |-> TRUE, metadata |-> metas, data |-> datas, calls |-> calls]
    ELSE LET body == resp[i].body
         IN  IF ~body.ok
             THEN [ok |-> FALSE, metadata |-> metas, data |-> datas, calls |-> calls + 1]
             ELSE IF MetaKey \notin DOMAIN body.value
             THEN [ok |-> FALSE, metadata |-> metas, data |-> datas, calls |-> calls + 1]
             ELSE IF DataKey \notin DOMAIN body.value
             THEN [ok |-> FALSE, metadata |-> Append(metas, body.value[MetaKey]),
                   data |-> datas, calls |-> calls + 1]
             ELSE ProcessLoop(resp, i + 1, Append(metas, body.value[MetaKey]),
                              Append(datas, body.value[DataKey]), calls + 1)

\* Mutant: the symbol is looked up but not compared.
SymbolPresent(meta, tick) == SymbolKey \in DOMAIN meta

\* assert meta["2. Symbol"] == tick
SymbolMatches(meta, tick) == SymbolKey \in DOMAIN meta /\ meta[SymbolKey] = tick

\* Mutant: every metadata is compared with the first ticker.
RECURSIVE ValidateLoopFirstTicker(_, _, _)
ValidateLoopFirstTicker(metas, tickers, i) ==
    IF i > Len(metas) \/ i > Len(tickers) THEN TRUE
    ELSE IF ~SymbolMatches(metas[i], tickers[1]) THEN FALSE
    ELSE ValidateLoopFirstTicker(metas, tickers, i + 1)

\* The loop of _validate_query_data over zip(self._json_metadata, self._ticker).
RECURSIVE ValidateLoop(_, _, _)
ValidateLoop(metas, tickers, i) ==
    IF i > Len(metas) \/ i > Len(tickers) THEN TRUE
    ELSE IF ~SymbolMatches(metas[i], tickers[i]) THEN FALSE
    ELSE ValidateLoop(metas, tickers, i + 1)

\* The loop of _build_data_frame from the i-th payload on.
RECURSIVE BuildLoop(_, _, _)
BuildLoop(datas, i, frames) ==
    IF i > Len(datas) THEN [ok |-> TRUE, msg |-> "", frames |-> frames]
    ELSE LET b == BuildFrame(datas[i])
         IN  IF ~b.ok THEN [ok |-> FALSE, msg |-> b.msg, frames |-> frames]
             ELSE BuildLoop(datas, i + 1, Append(frames, b.frame))

\* Mutant: the tables are built before the metadata is validated.
StageAfterBuildFirst(stage) ==
    CASE stage = "query" -> "process"
      [] stage = "process" -> "build"
      [] stage = "build" -> "validate"
      [] stage = "validate" -> "ready"

\* The order of the calls in FinanceClient.__init__ and
\* TimeSeriesFinanceClient.__init__.
StageAfter(stage) ==
    CASE stage = "query" -> "process"
      [] stage = "process" -> "validate"
      [] stage = "validate" -> "build"
      [] stage = "build" -> "ready"

\* No method has been called on the client yet.
NoCall == [method |-> "", from |-> PyNone, to |-> PyNone]
NoResult == [kind |-> "none", exc |-> "", value |-> <<>>]

FrameUnset == [state |-> "unset", frames |-> <<>>]
FrameNone == [state |-> "None", frames |-> <<>>]
FrameList(frames) == [state |-> "list", frames |-> frames]

(***************************************************************************)
(* Construction                                                            *)
(***************************************************************************)
Init ==
    /\ ticker \in TickerLists
    /\ api_key \in ApiKeyArgs
    /\ env_key \in EnvValues
    /\ _api_key = api_key
    /\ to_iterate = <<>>
    /\ response = <<>>
    /\ requests_log = <<>>
    /\ _json_metadata = <<>>
    /\ _json_data = <<>>
    /\ json_calls = 0
    /\ _data_frame = FrameUnset
    /\ pc = "init"
    /\ err = NoError
    /\ trace = <<>>
    /\ call = NoCall
    /\ result = NoResult
    /\ path2file = <<>>

\* FinanceClient.__init__ up to the first request: the key is resolved and
\* checked, then _query_api builds the URL parameters.
ConfigureKey ==
    /\ pc = "init"
    /\ _api_key' = ResolveKey(api_key, env_key)
    /\ IF KeyRejected(_api_key')
       THEN /\ pc' = "raised"
            /\ err' = Raise("FinanceClientInvalidAPIKey", "operation failed")
            /\ trace' = <<"api_key">>
            /\ UNCHANGED to_iterate
       ELSE /\ pc' = "query"
            /\ to_iterate' = BuildBaseQueryUrlParams(ticker, _api_key')
            /\ trace' = <<"api_key", "build_urls">>
            /\ UNCHANGED err
    /\ UNCHANGED <<call, result, path2file, ticker, api_key, env_key, response, requests_log,
                   _json_metadata, _json_data, json_calls, _data_frame>>

\* One iteration of the loop of _query_api.
QueryFetch ==
    /\ pc = "query"
    /\ Len(response) < Len(to_iterate)
    /\ \E o \in FetchOutcomes :
         LET i == Len(response)
             r == [status_code |-> o.status_code, url |-> Url(to_iterate[i + 1]),
                   body |-> o.body]
         IN  /\ requests_log' = Append(requests_log, Url(to_iterate[i + 1]))
             /\ response' = IF o.raises THEN response ELSE Append(response, r)
             /\ IF ~o.raises /\ StatusOK(r)
                THEN UNCHANGED <<pc, err>>
                ELSE /\ pc' = "raised"
                     /\ err' = QueryHandlerError(response', i)
    /\ trace' = Append(trace, "fetch")
    /\ UNCHANGED <<call, result, path2file, ticker, api_key, env_key, _api_key, to_iterate,
                   _json_metadata, _json_data, json_calls, _data_frame>>

\* The loop of _query_api is over: return response.
QueryReturn ==
    /\ pc = "query"
    /\ Len(response) = Len(to_iterate)
    /\ pc' = StageAfter("query")
    /\ UNCHANGED <<call, result, path2file, ticker, api_key, env_key, _api_key, to_iterate, response,
                   requests_log, _json_metadata, _json_data, json_calls,
                   _data_frame, err, trace>>

\* _process_query_response
ProcessQueryResponse ==
    /\ pc = "process"
    /\ LET p == ProcessLoop(response, 1, <<>>, <<>>, 0)
       IN  /\ _json_metadata' = p.metadata
           /\ _json_data' = p.data
           /\ json_calls' = p.calls
           /\ IF p.ok
              THEN pc' = StageAfter("process") /\ UNCHANGED err
              ELSE pc' = "raised" /\ err' = Raise("FinanceClientInvalidData", "Invalid data")
    /\ trace' = Append(trace, "preprocess")
    /\ UNCHANGED <<call, result, path2file, ticker, api_key, env_key, _api_key, to_iterate, response,
                   requests_log, _data_frame>>

\* _validate_query_data, then self._data_frame = None of FinanceClient.__init__
ValidateQueryData ==
    /\ pc = "validate"
    /\ IF ValidateLoop(_json_metadata, ticker, 1)
       THEN /\ pc' = StageAfter("validate")
            /\ _data_frame' = FrameNone
            /\ UNCHANGED err
       ELSE /\ pc' = "raised"
            /\ err' = Raise("FinanceClientInvalidData", MsgSymbol)
            /\ UNCHANGED _data_frame
    /\ trace' = Append(trace, "validate")
    /\ UNCHANGED <<call, result, path2file, ticker, api_key, env_key, _api_key, to_iterate, response,
                   requests_log, _json_metadata, _json_data, json_calls>>

\* _build_data_frame
BuildDataFrame ==
    /\ pc = "build"
    /\ LET b == BuildLoop(_json_data, 1, <<>>)
       IN  /\ _data_frame' = FrameList(b.frames)
           /\ IF b.ok
              THEN pc' = StageAfter("build") /\ UNCHANGED err
              ELSE pc' = "raised" /\ err' = Raise("FinanceClientInvalidData", b.msg)
    /\ trace' = Append(trace, "normalize")
    /\ UNCHANGED <<call, result, path2file, ticker, api_key, env_key, _api_key, to_iterate, response,
                   requests_log, _json_metadata, _json_data, json_calls>>

Next ==
    \/ ConfigureKey
    \/ QueryFetch
    \/ QueryReturn
    \/ ProcessQueryResponse
    \/ ValidateQueryData
    \/ BuildDataFrame

Spec == Init /\ [][Next]_vars

(***************************************************************************)
(* _build_data_frame on one payload: the state a single-ticker             *)
(* construction is in once its payload has passed validation.              *)
(***************************************************************************)
FrameInit ==
    /\ ticker = <<"IBM">>
    /\ api_key = PyStr("KEY")
    /\ env_key = PyNone
    /\ _api_key = api_key
    /\ to_iterate = BuildBaseQueryUrlParams(ticker, _api_key)
    /\ requests_log = <<Url(to_iterate[1])>>
    /\ \E d \in DataObjects :
         /\ response = <<[status_code |-> HTTP_OK, url |-> Url(to_iterate[1]),
                          body |-> Json(BodyBoth(MetaWith(ticker[1]), d))]>>
         /\ _json_data = <<d>>
    /\ _json_metadata = <<MetaWith(ticker[1])>>
    /\ json_calls = 1
    /\ _data_frame = FrameNone
    /\ pc = "build"
    /\ err = NoError
    /\ trace = <<"api_key", "build_urls", "fetch", "preprocess", "validate">>
    /\ call = NoCall
    /\ result = NoResult
    /\ path2file = <<>>

SpecFrame == FrameInit /\ [][BuildDataFrame]_vars

(***************************************************************************)
(* Claims                                                                  *)
(***************************************************************************)
Range(seq) == {seq[i] : i \in 1..Len(seq)}
Finished == pc \in {"ready", "raised"}
Min(S) == CHOOSE x \in S : \A y \in S : x <= y

\* C1: once any collected response has a status code other than 200, the
\* construction has failed with FinanceClientAPIError, and nothing was
\* preprocessed and no table built for any ticker, those fetched with 200
\* included.
C1_NonOkStatusAborts ==
    (\E j \in 1..Len(response) : response[j].status_code # HTTP_OK) =>
        /\ pc = "raised"
        /\ err.kind = "FinanceClientAPIError"
        /\ _data_frame = FrameUnset
        /\ _json_data = <<>>
        /\ _json_metadata = <<>>

C1_Witness ==
    /\ pc = "raised"
    /\ Len(response) = 2
    /\ response[1].status_code = HTTP_OK
    /\ response[2].status_code # HTTP_OK
    /\ err.kind = "FinanceClientAPIError"

\* C2: when requests.get raised on a fetch (the request was logged and no
\* response collected for it), the construction failed with
\* FinanceClientAPIError.
C2_TransportErrorIsAPIError ==
    (pc = "raised" /\ Len(requests_log) > Len(response)) =>
        err.kind = "FinanceClientAPIError"

\* C3 as stated: the tables are normalized before the validator runs, so
\* when a payload that passed the preprocessing fails normalization the
\* construction is rejected by the normalizer and the validator is never
\* reached.
C3_NormalizeBeforeValidate ==
    (pc \in {"ready", "raised"} /\ "preprocess" \in {trace[k] : k \in 1..Len(trace)}
       /\ Len(_json_data) = Len(ticker)
       /\ \E i \in 1..Len(_json_data) : ~BuildFrame(_json_data[i]).ok) =>
        /\ pc = "raised"
        /\ err.msg \in NormalizerMsgs
        /\ "validate" \notin {trace[k] : k \in 1..Len(trace)}

\* The stages of a construction with n tickers, in the order of the code.
PipelineOrder(n) ==
    <<"api_key", "build_urls">> \o [i \in 1..n |-> "fetch"]
        \o <<"preprocess", "validate", "normalize">>

IsPrefix(a, b) == Len(a) <= Len(b) /\ \A i \in 1..Len(a) : a[i] = b[i]

\* C3 amended: the stages run in the strict order build URLs -> fetch ->
\* preprocess -> validate -> normalize: the metadata symbols are validated
\* before any table is normalized, so the normalizer rejects a payload only
\* after the validator has accepted every symbol, and a constructed client
\* has run every stage once (fetch once per ticker).
C3_StagesInOrder ==
    /\ IsPrefix(trace, PipelineOrder(Len(ticker)))
    /\ pc = "ready" => trace = PipelineOrder(Len(ticker))
    /\ (pc = "raised" /\ err.msg \in NormalizerMsgs) =>
           /\ "validate" \in Range(trace)
           /\ \A i \in 1..Len(ticker) : SymbolKey \in DOMAIN _json_metadata[i]
                                        /\ _json_metadata[i][SymbolKey] = ticker[i]

C3_Witness ==
    /\ pc = "raised"
    /\ err.msg \in NormalizerMsgs
    /\ Len(ticker) = 2
    /\ trace = PipelineOrder(2)

\* A table as _build_data_frame leaves it: the 8 canonical columns, numbers
\* in them (NaN only in float columns), whole numbers in the int columns,
\* rows in ascending index order.
Normalized(frame) ==
    /\ CanonicalNames \subseteq frame.columns
    /\ \A i \in 1..Len(frame.rows) : \A name \in CanonicalNames :
           LET cell == frame.rows[i].cells[name]
           IN  /\ cell.tag \in {"num", "nan"}
               /\ TypeOfName(name) = "int" => cell.tag = "num" /\ cell.v % 10 = 0
    /\ \A i \in 1..Len(frame.rows) : \A j \in 1..Len(frame.rows) :
           i < j => ~DateLt(frame.rows[j].index, frame.rows[i].index)

\* C4: a client is handed to the caller only if the key is a non-empty
\* string taken from the argument or the environment, every ticker was
\* fetched with status 200, every body holds the metadata and the data key,
\* every metadata symbol equals its ticker and every ticker has its
\* normalized table; a construction that raised handed out no client.
C4_ClientOnlyIfAllStagesSucceeded ==
    /\ pc = "ready" =>
        /\ err = NoError
        /\ IsStr(_api_key) /\ _api_key.val # ""
        /\ _api_key \in {api_key, env_key}
        /\ Len(response) = Len(ticker)
        /\ Len(requests_log) = Len(ticker)
        /\ \A i \in 1..Len(ticker) :
              /\ response[i].status_code = HTTP_OK
              /\ response[i].body.ok
              /\ {MetaKey, DataKey} \subseteq DOMAIN response[i].body.value
              /\ SymbolKey \in DOMAIN response[i].body.value[MetaKey]
              /\ response[i].body.value[MetaKey][SymbolKey] = ticker[i]
        /\ _data_frame.state = "list"
        /\ Len(_data_frame.frames) = Len(ticker)
        /\ \A i \in 1..Len(ticker) : Normalized(_data_frame.frames[i])
    /\ err # NoError <=> pc = "raised"

C4_Witness ==
    /\ pc = "ready"
    /\ Len(ticker) = 2
    /\ ticker[1] # ticker[2]
    /\ Len(_data_frame.frames) = 2

\* C5: the requests issued so far are the requests of the first tickers, one
\* per ticker and in ticker order, never more than one per ticker; the i-th
\* collected response answers the i-th ticker's request; a constructed
\* client has issued exactly one request per ticker.
C5_OneFetchPerTickerInOrder ==
    /\ Len(requests_log) <= Len(ticker)
    /\ Len(response) <= Len(requests_log)
    /\ \A i \in 1..Len(requests_log) :
          /\ requests_log[i].base = FinanceBaseQueryURL
          /\ requests_log[i].params.symbol = ticker[i]
          /\ requests_log[i].params.apikey = _api_key.val
    /\ \A i \in 1..Len(response) : response[i].url = requests_log[i]
    /\ pc = "ready" =>
          Len(requests_log) = Len(ticker) /\ Len(response) = Len(ticker)

C5_Witness ==
    /\ pc = "ready"
    /\ Len(requests_log) = 2
    /\ requests_log[1].params.symbol # requests_log[2].params.symbol

\* a value is present: it is not None and not empty
Present(x) == Truthy(x)
\* a key that can be used: a non-empty string
UsableKey(x) == IsStr(x) /\ x.val # ""

\* C6 as stated: with neither key present the construction raises
\* FinanceClientInvalidAPIKey, and with either one present it does not.
C6_KeyPresenceDecides ==
    pc # "init" =>
        /\ (~Present(api_key) /\ ~Present(env_key)) =>
               err.kind = "FinanceClientInvalidAPIKey"
        /\ (Present(api_key) \/ Present(env_key)) =>
               err.kind # "FinanceClientInvalidAPIKey"

\* C6 amended: the construction raises FinanceClientInvalidAPIKey exactly
\* when no usable key is found: it does not raise when the argument is a
\* non-empty string, or when the argument is None or empty and the
\* environment variable holds a non-empty string; it raises otherwise, also
\* for an argument that is present but no string, whatever the environment.
C6_UsableKeyDecides ==
    pc # "init" =>
        (err.kind = "FinanceClientInvalidAPIKey" <=>
            ~(UsableKey(api_key) \/ (~Present(api_key) /\ UsableKey(env_key))))

C6_Witness ==
    /\ pc = "query"
    /\ api_key = PyNone
    /\ env_key = PyStr("ENVKEY")
    /\ _api_key = env_key

\* the metadata of the i-th body, when the body has one
HasMetadata(r) == r.body.ok /\ MetaKey \in DOMAIN r.body.value
SymbolOf(r) == r.body.value[MetaKey][SymbolKey]
BadSymbol(i) ==
    \/ ~HasMetadata(response[i])
    \/ SymbolKey \notin DOMAIN response[i].body.value[MetaKey]
    \/ SymbolOf(response[i]) # ticker[i]

\* C7: when every ticker was fetched with status 200 and the construction
\* has ended, a body whose metadata lacks the symbol or whose symbol differs
\* from the ticker at the same position made it raise
\* FinanceClientInvalidData; when the validator ran, it is the validator
\* that raised.
C7_SymbolMismatchRaises ==
    (Finished /\ Len(response) = Len(ticker)
       /\ (\A i \in 1..Len(ticker) : response[i].status_code = HTTP_OK)
       /\ (\E i \in 1..Len(ticker) : BadSymbol(i))) =>
        /\ pc = "raised"
        /\ err.kind = "FinanceClientInvalidData"
        /\ "validate" \in Range(trace) => err.msg = MsgSymbol
        /\ "normalize" \notin Range(trace)

C7_Witness ==
    /\ pc = "raised"
    /\ err.msg = MsgSymbol
    /\ ticker = <<"AMZN", "IBM">>
    /\ ~BadSymbol(1)
    /\ SymbolKey \in DOMAIN response[2].body.value[MetaKey]
    /\ SymbolOf(response[2]) = "ibm"

\* a body that lacks the metadata key or the data key (a body that is no
\* JSON has neither)
BadBody(r) == ~(r.body.ok /\ {MetaKey, DataKey} \subseteq DOMAIN r.body.value)
BadBodies == {j \in 1..Len(response) : BadBody(response[j])}

\* C8: once the preprocessing ran, a body without the metadata key or
\* without the data key made the construction raise
\* FinanceClientInvalidData at the first such body in ticker order: json()
\* was called on the bodies up to that one and on no later one, and no data
\* of that or a later body was stored.
C8_MissingKeyRaisesAtFirst ==
    ("preprocess" \in Range(trace) /\ BadBodies # {}) =>
        /\ pc = "raised"
        /\ err = Raise("FinanceClientInvalidData", "Invalid data")
        /\ json_calls = Min(BadBodies)
        /\ Len(_json_data) = Min(BadBodies) - 1
        /\ Len(_json_metadata) <= Min(BadBodies)
        /\ _data_frame = FrameUnset

C8_Witness ==
    /\ pc = "raised"
    /\ Len(response) = 2
    /\ BadBodies = {1, 2}
    /\ MetaKey \in DOMAIN response[1].body.value
    /\ json_calls = 1

\* the labels a payload carries: the labels of any of its records
LabelsOf(d) == UNION {DOMAIN d.items[i][2] : i \in 1..Len(d.items)}

\* C9: a payload whose set of labels differs from the 8 labels of FieldSpec,
\* by lacking one or by carrying another, makes the construction raise
\* FinanceClientInvalidData.
C9_LabelMismatchRaises ==
    (Finished /\ _json_data[1].kind = "dict"
       /\ LabelsOf(_json_data[1]) # FieldLabels) =>
        pc = "raised" /\ err.kind = "FinanceClientInvalidData"

\* C10: a payload in which some records carry the dividend label and others
\* do not makes the construction raise FinanceClientInvalidData.
C10_PartialDividendRaises ==
    (Finished /\ _json_data[1].kind = "dict"
       /\ \E i, j \in 1..Len(_json_data[1].items) :
             /\ "7. dividend amount" \in DOMAIN _json_data[1].items[i][2]
             /\ "7. dividend amount" \notin DOMAIN _json_data[1].items[j][2]) =>
        pc = "raised" /\ err.kind = "FinanceClientInvalidData"

IndexOf(frame) == [i \in 1..Len(frame.rows) |-> frame.rows[i].index]

StrictlyIncreasing(dates) ==
    \A i \in 1..(Len(dates) - 1) : DateLt(dates[i], dates[i + 1])

\* C11: after a successful construction the date index of every table is
\* strictly increasing: ascending, and no calendar date twice, whatever the
\* order and the spelling of the date strings of the payload (here: of a
\* payload whose records carry exactly the labels of FieldSpec).
C11_IndexStrictlyIncreasing ==
    (pc = "ready"
       /\ \A k \in 1..Len(_json_data) : \A j \in 1..Len(_json_data[k].items) :
              DOMAIN _json_data[k].items[j][2] = FieldLabels) =>
        \A i \in 1..Len(_data_frame.frames) :
            StrictlyIncreasing(IndexOf(_data_frame.frames[i]))

(***************************************************************************)
(* Queries on a constructed client                                         *)
(***************************************************************************)
MaxDays == 3
MaxWritten == 2

\* Python values of the date and year arguments.
PyDate(d) == [type |-> "date", val |-> "", date |-> d]
PyDateTime(d) == [type |-> "datetime", val |-> "", date |-> d]
PyYear(n) == [type |-> "int", val |-> "", num |-> n]

IsNone(x) == x.type = "NoneType"

\* What a method call does: return a value, or raise.
Returned(value) == [kind |-> "returned", exc |-> "", value |-> value]
Raised(exc) == [kind |-> "raised", exc |-> exc, value |-> <<>>]

\* Mutant: the column is read without its last row.
ColumnButLast(data, name) ==
    [i \in 1..(Len(data.rows) - 1) |->
        [index |-> data.rows[i].index, value |-> data.rows[i].cells[name]]]

\* data[name]: the column as a series, index and values in row order.
Column(data, name) ==
    [i \in 1..Len(data.rows) |->
        [index |-> data.rows[i].index, value |-> data.rows[i].cells[name]]]

\* Number of entries of a sorted index before d (searchsorted, side left)
\* and up to d (side right).
SearchLeft(series, d) == Cardinality({i \in 1..Len(series) : DateLt(series[i].index, d)})
SearchRight(series, d) == Cardinality({i \in 1..Len(series) : ~DateLt(d, series[i].index)})

\* Mutant: the slice stops before the entries dated to_date.
LocHalfOpen(series, from_date, to_date) ==
    SubSeq(series, SearchLeft(series, from_date) + 1, SearchLeft(series, to_date))

\* series.loc[from_date:to_date] on a sorted DatetimeIndex: a date is the
\* datetime at its midnight, both ends are included.
Loc(series, from_date, to_date) ==
    SubSeq(series, SearchLeft(series, from_date) + 1, SearchRight(series, to_date))

\* type(from_date) is not dt.date or type(to_date) is not dt.date
NotDates(from_date, to_date) == from_date.type # "date" \/ to_date.type # "date"


\* The loop of daily_price and of daily_volume from the i-th table on.
RECURSIVE DailyLoop(_, _, _, _, _, _)
DailyLoop(name, frames, from_date, to_date, i, acc) ==
    IF i > Len(frames) THEN Returned(acc)
    ELSE LET series == Column(frames[i], name)
         IN  IF ~IsNone(from_date) /\ ~IsNone(to_date)
             THEN IF NotDates(from_date, to_date)
                  THEN Raised("FinanceClientParamError")
                  ELSE IF DateLt(to_date.date, from_date.date)
                       THEN Raised("FinanceClientParamError")
                       ELSE DailyLoop(name, frames, from_date, to_date, i + 1,
                                      Append(acc, Loc(series, from_date.date, to_date.date)))
             ELSE DailyLoop(name, frames, from_date, to_date, i + 1, Append(acc, series))

daily_price(frames, from_date, to_date) ==
    DailyLoop("close", frames, from_date, to_date, 1, <<>>)

daily_volume(frames, from_date, to_date) ==
    DailyLoop("volume", frames, from_date, to_date, 1, <<>>)

\* series.index.get_loc(key, method=...): the 0-based position of the first
\* entry on or after key (bfill) or of the last entry on or before it
\* (ffill); -1 where there is none, and the index must hold no date twice.
IsUnique(series) ==
    \A i, j \in 1..Len(series) : i # j => series[i].index # series[j].index

GetLocBfill(series, key) ==
    IF SearchLeft(series, key) = Len(series) THEN -1 ELSE SearchLeft(series, key)

GetLocFfill(series, key) == SearchRight(series, key) - 1

\* series.iloc[a:b], a and b 0-based and not negative, b excluded.
ILoc(series, a, b) == SubSeq(series, a + 1, b)

\* Mutant: no row is filtered out.
NonZeroKeepsAll(series) == series

\* series[series != 0]
NonZero(series) == SelectSeq(series, LAMBDA e : e.value # Num(0))

\* total = 0; for value in series: total = total + value
RECURSIVE Total(_)
Total(series) ==
    IF series = <<>> THEN 0
    ELSE Total(SubSeq(series, 1, Len(series) - 1)) + series[Len(series)].value.v

YearOf(d) == d[1]

\* The rows of year i as yearly_dividends takes them:
\* series.iloc[from_date:to_date] between the two positions of get_loc.
YearRows(series, i) ==
    ILoc(series, GetLocBfill(series, <<i, 1, 1>>), GetLocFfill(series, <<i, 12, 31>>))

\* The loop over the years i..last of yearly_dividends for one table.
RECURSIVE YearLoop(_, _, _, _)
YearLoop(series, i, last, serie) ==
    IF i > last THEN Returned(serie)
    ELSE IF ~IsUnique(series) THEN Raised("InvalidIndexError")
    ELSE IF GetLocBfill(series, <<i, 1, 1>>) = -1 \/ GetLocFfill(series, <<i, 12, 31>>) = -1
         THEN Raised("KeyError")
         ELSE YearLoop(series, i + 1, last,
                       Append(serie, [index |-> <<i, 1, 1>>,
                                      value |-> Num(Total(NonZero(YearRows(series, i))))]))

\* type(from_year) is not int or type(to_year) is not int
NotInts(from_year, to_year) == from_year.type # "int" \/ to_year.type # "int"

\* The loop of yearly_dividends from the i-th table on.
RECURSIVE YearlyLoop(_, _, _, _, _)
YearlyLoop(frames, from_year, to_year, i, acc) ==
    IF i > Len(frames) THEN Returned(acc)
    ELSE LET series == Column(frames[i], "dividend")
             both == ~IsNone(from_year) /\ ~IsNone(to_year)
         IN  IF both /\ NotInts(from_year, to_year)
             THEN Raised("FinanceClientParamError")
             ELSE IF both /\ from_year.num > to_year.num
             THEN Raised("FinanceClientParamError")
             ELSE LET y == IF both
                           THEN YearLoop(series, from_year.num, to_year.num, <<>>)
                           ELSE YearLoop(series, YearOf(series[1].index),
                                         YearOf(series[Len(series)].index), <<>>)
                  IN  IF y.kind = "raised" THEN y
                      ELSE YearlyLoop(frames, from_year, to_year, i + 1,
                                      Append(acc, y.value))

yearly_dividends(frames, from_year, to_year) ==
    YearlyLoop(frames, from_year, to_year, 1, <<>>)

\* The loop of yearly_dividends_per_quarter from the i-th table on.
RECURSIVE QuarterLoop(_, _, _, _, _)
QuarterLoop(frames, from_year, to_year, i, acc) ==
    IF i > Len(frames) THEN Returned(acc)
    ELSE LET series == Column(frames[i], "dividend")
             both == ~IsNone(from_year) /\ ~IsNone(to_year)
         IN  IF both /\ NotInts(from_year, to_year)
             THEN Raised("FinanceClientParamError")
             ELSE IF both /\ from_year.num > to_year.num
             THEN Raised("FinanceClientParamError")
             ELSE QuarterLoop(frames, from_year, to_year, i + 1,
                      Append(acc,
                             NonZero(IF both
                                     THEN Loc(series, <<from_year.num, 1, 1>>,
                                              <<to_year.num, 12, 31>>)
                                     ELSE series)))

yearly_dividends_per_quarter(frames, from_year, to_year) ==
    QuarterLoop(frames, from_year, to_year, 1, <<>>)

RECURSIVE VariationLoopOrEqual(_, _, _, _, _)
VariationLoopOrEqual(high, low, i, index, maxdiff) ==
    IF i >= Len(high) THEN [index |-> index, maxdiff |-> maxdiff]
    ELSE LET diff == high[i + 1].value.v - low[i + 1].value.v
         IN  IF diff >= maxdiff
             THEN VariationLoopOrEqual(high, low, i + 1, i, diff)
             ELSE VariationLoopOrEqual(high, low, i + 1, index, maxdiff)

\* The loop of highest_daily_variation over zip(high, low) from the row at
\* 0-based position i on.
RECURSIVE VariationLoop(_, _, _, _, _)
VariationLoop(high, low, i, index, maxdiff) ==
    IF i >= Len(high) THEN [index |-> index, maxdiff |-> maxdiff]
    ELSE LET diff == high[i + 1].value.v - low[i + 1].value.v
         IN  IF diff > maxdiff
             THEN VariationLoop(high, low, i + 1, i, diff)
             ELSE VariationLoop(high, low, i + 1, index, maxdiff)

\* What highest_daily_variation appends for one table.
HighestOf(data) ==
    LET high == Column(data, "high")
        low == Column(data, "low")
        m == VariationLoop(high, low, 0, 0, 0)
    IN  [date |-> high[m.index + 1].index, high |-> high[m.index + 1].value.v,
         low |-> low[m.index + 1].value.v, maxdiff |-> m.maxdiff]

highest_daily_variation(frames) ==
    Returned([i \in 1..Len(frames) |-> HighestOf(frames[i])])

\* calendar.monthrange(year, month)[1]
MonthRange(year, month) ==
    IF month = 2
    THEN IF year % 4 = 0 /\ (year % 100 # 0 \/ year % 400 = 0) THEN 29 ELSE 28
    ELSE IF month \in {4, 6, 9, 11} THEN 30 ELSE 31

\* diffparcial of one month: the sum of high - low over zip(high, low).
RECURSIVE DiffParcial(_, _)
DiffParcial(high, low) ==
    IF high = <<>> \/ low = <<>> THEN 0
    ELSE DiffParcial(SubSeq(high, 1, Len(high) - 1), SubSeq(low, 1, Len(low) - 1))
             + (high[Len(high)].value.v - low[Len(low)].value.v)

\* The two loops of highest_monthly_mean_variation, month k counted from
\* January of the first year; a mean is kept as the fraction num / den.
RECURSIVE MonthLoop(_, _, _, _, _, _)
MonthLoop(data, first, k, months, st, aux) ==
    IF k >= months THEN st
    ELSE LET i == first + (k \div 12)
             j == (k % 12) + 1
             high == Loc(Column(data, "high"), <<i, j, 1>>, <<i, j, MonthRange(i, j)>>)
             low == Loc(Column(data, "low"), <<i, j, 1>>, <<i, j, MonthRange(i, j)>>)
             dias == Len(high)
             diffparcial == DiffParcial(high, low)
             aux2 == aux + dias
         IN  IF dias # 0 /\ diffparcial * st.den > st.num * dias
             THEN MonthLoop(data, first, k + 1, months,
                            [index |-> aux2 - 1, num |-> diffparcial, den |-> dias], aux2)
             ELSE MonthLoop(data, first, k + 1, months, st, aux2)

\* What highest_monthly_mean_variation appends for one table.
HighestMonthOf(data) ==
    LET first == YearOf(data.rows[1].index)
        last == YearOf(data.rows[Len(data.rows)].index)
        st == MonthLoop(data, first, 0, 12 * (last + 1 - first),
                        [index |-> 0, num |-> 0, den |-> 1], 0)
        at == data.rows[st.index + 1].index
    IN  [date |-> <<at[1], at[2], 1>>, num |-> st.num, den |-> st.den]

highest_monthly_mean_variation(frames) ==
    Returned([i \in 1..Len(frames) |-> HighestMonthOf(frames[i])])

\* Mutant: every entry of the list is the first table.
ToPandasFirstTable(frames) == Returned([i \in 1..Len(frames) |-> frames[1]])

\* to_pandas: a new list of the tables the client holds.
to_pandas(frames) == Returned([i \in 1..Len(frames) |-> frames[i]])

\* The text pandas writes for a cell: a float with its decimal point, an
\* integer without, a missing value as the empty field (values in tenths).
FloatStr(v) ==
    CASE v = 0 -> "0.0"
      [] v = 10 -> "1.0"
      [] v = 15 -> "1.5"
      [] v = 20 -> "2.0"

IntStr(v) ==
    CASE v = 0 -> "0"
      [] v = 10 -> "1"
      [] v = 20 -> "2"

FormatCell(cell, name) ==
    IF cell.tag = "nan" THEN ""
    ELSE IF cell.tag = "obj" THEN cell.s
    ELSE IF name \in CanonicalNames /\ TypeOfName(name) = "int" THEN IntStr(cell.v)
    ELSE FloatStr(cell.v)

\* The text of an index entry: all entries are midnights, so the date alone.
FormatDate(d) ==
    CASE d = <<2019, 12, 31>> -> "2019-12-31"
      [] d = <<2020, 1, 1>> -> "2020-01-01"
      [] d = <<2020, 1, 2>> -> "2020-01-02"
      [] d = <<2021, 3, 1>> -> "2021-03-01"

\* A line of the file: the first field and one field per column.
CsvLine(first, fields) == [index |-> first, cells |-> fields]

\* What data.to_csv(path2file, mode='a') appends to the file: the header
\* line (an empty first field, then the column names) and one line per row.
CsvOf(data) ==
    <<CsvLine("", [c \in data.columns |-> c])>>
        \o [k \in 1..Len(data.rows) |->
               CsvLine(FormatDate(data.rows[k].index),
                       [c \in data.columns |-> FormatCell(data.rows[k].cells[c], c)])]

\* pd.read_csv(path2file, index_col=0) and the cast of the index to
\* datetime64[ns]: the first line names the columns, every later line is a
\* row; a column is numeric when every field of it reads as a number (an
\* empty field is a missing value), and is kept as text otherwise; an index
\* entry that is no date is NaT.
NaT == <<0, 0, 0>>

ParseCsvNumber(s) ==
    CASE s = "0.0" -> [ok |-> TRUE, v |-> 0]
      [] s = "1.0" -> [ok |-> TRUE, v |-> 10]
      [] s = "1.5" -> [ok |-> TRUE, v |-> 15]
      [] s = "2.0" -> [ok |-> TRUE, v |-> 20]
      [] s = "0" -> [ok |-> TRUE, v |-> 0]
      [] s = "1" -> [ok |-> TRUE, v |-> 10]
      [] s = "2" -> [ok |-> TRUE, v |-> 20]
      [] OTHER -> [ok |-> FALSE, v |-> 0]

ReadCell(lines, key, k) ==
    LET numeric == \A j \in 2..Len(lines) :
                       lines[j].cells[key] = "" \/ ParseCsvNumber(lines[j].cells[key]).ok
        s == lines[k].cells[key]
    IN  IF s = "" THEN NaN
        ELSE IF numeric THEN Num(ParseCsvNumber(s).v)
        ELSE Obj(s)

ReadCsv(lines) ==
    IF lines = <<>> THEN Raised("EmptyDataError")
    ELSE LET header == lines[1].cells
             names == {header[c] : c \in DOMAIN header}
             KeyOf(n) == CHOOSE c \in DOMAIN header : header[c] = n
         IN  Returned([columns |-> names,
                       rows |-> [k \in 1..(Len(lines) - 1) |->
                                   [index |-> IF ParseDate(lines[k + 1].index).ok
                                              THEN ParseDate(lines[k + 1].index).date
                                              ELSE NaT,
                                    cells |-> [n \in names |->
                                                 ReadCell(lines, KeyOf(n), k + 1)]]]])

\* The lines of a file, write after write.
RECURSIVE LinesOf(_)
LinesOf(content) ==
    IF content = <<>> THEN <<>> ELSE Head(content) \o LinesOf(Tail(content))

\* mode='a': the file keeps what it held and the text is added at its end.
WriteTruncate(content, written) == written

WriteAppend(content, written) == content \o written

ToCsvWrittenReversed(frames, failed) ==
    [i \in 1..(IF failed = 0 THEN Len(frames) ELSE failed - 1) |->
        CsvOf(frames[Len(frames) + 1 - i])]

\* to_csv when the write of the table at position failed raises (0: none
\* does): the tables before it are in the file.
ToCsvWritten(frames, failed) ==
    [i \in 1..(IF failed = 0 THEN Len(frames) ELSE failed - 1) |-> CsvOf(frames[i])]

to_csv(frames, failed) ==
    IF failed = 0 THEN Returned(<<"path2file">>) ELSE Raised("FinanceClientIOError")

(***************************************************************************)
(* Inputs of the queries                                                   *)
(***************************************************************************)
\* The date keys of a payload, newest first as the provider sends them;
\* two of them spell the same date.
QueryDateList ==
    <<"2021-03-01", "2020-01-02", "2020-01-01T00:00:00", "2020-01-01", "2019-12-31">>

\* A record whose high is below its low.
InvertedRecord ==
    [l \in FieldLabels |->
        IF l = "3. low" THEN "2" ELSE "1"]

QueryRecords == {GoodRecord("0"), GoodRecord("1.5"), InvertedRecord}

RECURSIVE Ascending(_)
Ascending(S) ==
    IF S = {} THEN <<>>
    ELSE LET m == CHOOSE x \in S : \A y \in S : y <= x
         IN  Append(Ascending(S \ {m}), m)

\* The payloads of 1 to MaxDays records over the keys of QueryDateList.
PayloadsOver(records) ==
    UNION {{DataDict([k \in 1..Cardinality(S) |->
                        <<QueryDateList[Ascending(S)[k]], f[Ascending(S)[k]]>>]) :
              f \in [S -> records]} :
           S \in {T \in SUBSET (1..Len(QueryDateList)) : Cardinality(T) \in 1..MaxDays}}

QueryPayloads == PayloadsOver(QueryRecords)

\* A record whose high equals its low, and the payloads that may hold it.
FlatRecord == [l \in FieldLabels |-> "1"]
VariationPayloads == PayloadsOver(QueryRecords \cup {FlatRecord})

\* The payloads of the clients of several tickers.
FewPayloads ==
    {DataDict(<< <<"2020-01-02", GoodRecord("1.5")>>, <<"2019-12-31", InvertedRecord>> >>),
     DataDict(<< <<"2021-03-01", GoodRecord("0")>> >>)}

\* _json_data of a few constructed clients: no ticker, one ticker, several.
FewClients == UNION {[1..n -> FewPayloads] : n \in 0..MaxTickers}

\* _json_data of the constructed clients the results are checked on.
QueryClients == FewClients \cup {<<d>> : d \in QueryPayloads}

TickerAt(i) == IF i % 2 = 1 THEN "IBM" ELSE "AMZN"

\* The arguments the methods are called with.
DateArgs ==
    {PyNone, PyStr("Lunes"), PyDateTime(<<2020, 1, 1>>),
     PyDate(<<2020, 1, 1>>), PyDate(<<2020, 1, 2>>)}
YearArgs == {PyNone, PyStr("2020"), PyYear(2019), PyYear(2020), PyYear(2021)}

\* A client whose construction has succeeded on payloads of clients.
Constructed(clients) ==
    /\ \E datas \in clients :
         /\ _json_data = datas
         /\ BuildLoop(datas, 1, <<>>).ok
         /\ _data_frame = FrameList(BuildLoop(datas, 1, <<>>).frames)
    /\ ticker = [i \in 1..Len(_json_data) |-> TickerAt(i)]
    /\ api_key = PyStr("KEY")
    /\ env_key = PyNone
    /\ _api_key = api_key
    /\ to_iterate = BuildBaseQueryUrlParams(ticker, _api_key)
    /\ requests_log = [i \in 1..Len(ticker) |-> Url(to_iterate[i])]
    /\ response = [i \in 1..Len(ticker) |->
                     [status_code |-> HTTP_OK, url |-> Url(to_iterate[i]),
                      body |-> Json(BodyBoth(MetaWith(ticker[i]), _json_data[i]))]]
    /\ _json_metadata = [i \in 1..Len(ticker) |-> MetaWith(ticker[i])]
    /\ json_calls = Len(ticker)
    /\ pc = "ready"
    /\ err = NoError
    /\ trace = PipelineOrder(Len(ticker))
    /\ call = NoCall
    /\ result = NoResult
    /\ path2file = <<>>

(***************************************************************************)
(* The methods of a constructed client                                     *)
(***************************************************************************)
\* Mutant: a method leaves in each table only the rows it selected, as if
\* series = series[series != 0] were done in place.
TablesAfterInPlace(frames) ==
    [i \in 1..Len(frames) |->
        [columns |-> frames[i].columns,
         rows |-> SelectSeq(frames[i].rows, LAMBDA r : r.cells["dividend"] # Num(0))]]

\* self._data_frame once a method has returned or raised: the methods read
\* the tables and assign only to their locals (response, series, serie).
TablesAfter(frames) == frames

Called(method, from, to) == [method |-> method, from |-> from, to |-> to]

DailyPrice ==
    /\ pc = "ready"
    /\ \E from_date \in DateArgs, to_date \in DateArgs :
         /\ call' = Called("daily_price", from_date, to_date)
         /\ result' = daily_price(_data_frame.frames, from_date, to_date)
    /\ _data_frame' = FrameList(TablesAfter(_data_frame.frames))
    /\ UNCHANGED <<path2file, ticker, api_key, env_key, _api_key, to_iterate, response,
                   requests_log, _json_metadata, _json_data, json_calls, pc, err, trace>>

DailyVolume ==
    /\ pc = "ready"
    /\ \E from_date \in DateArgs, to_date \in DateArgs :
         /\ call' = Called("daily_volume", from_date, to_date)
         /\ result' = daily_volume(_data_frame.frames, from_date, to_date)
    /\ _data_frame' = FrameList(TablesAfter(_data_frame.frames))
    /\ UNCHANGED <<path2file, ticker, api_key, env_key, _api_key, to_iterate, response,
                   requests_log, _json_metadata, _json_data, json_calls, pc, err, trace>>

YearlyDividends ==
    /\ pc = "ready"
    /\ \E from_year \in YearArgs, to_year \in YearArgs :
         /\ call' = Called("yearly_dividends", from_year, to_year)
         /\ result' = yearly_dividends(_data_frame.frames, from_year, to_year)
    /\ _data_frame' = FrameList(TablesAfter(_data_frame.frames))
    /\ UNCHANGED <<path2file, ticker, api_key, env_key, _api_key, to_iterate, response,
                   requests_log, _json_metadata, _json_data, json_calls, pc, err, trace>>

YearlyDividendsPerQuarter ==
    /\ pc = "ready"
    /\ \E from_year \in YearArgs, to_year \in YearArgs :
         /\ call' = Called("yearly_dividends_per_quarter", from_year, to_year)
         /\ result' = yearly_dividends_per_quarter(_data_frame.frames, from_year, to_year)
    /\ _data_frame' = FrameList(TablesAfter(_data_frame.frames))
    /\ UNCHANGED <<path2file, ticker, api_key, env_key, _api_key, to_iterate, response,
                   requests_log, _json_metadata, _json_data, json_calls, pc, err, trace>>

HighestDailyVariation ==
    /\ pc = "ready"
    /\ call' = Called("highest_daily_variation", PyNone, PyNone)
    /\ result' = highest_daily_variation(_data_frame.frames)
    /\ _data_frame' = FrameList(TablesAfter(_data_frame.frames))
    /\ UNCHANGED <<path2file, ticker, api_key, env_key, _api_key, to_iterate, response,
                   requests_log, _json_metadata, _json_data, json_calls, pc, err, trace>>

HighestMonthlyMeanVariation ==
    /\ pc = "ready"
    /\ call' = Called("highest_monthly_mean_variation", PyNone, PyNone)
    /\ result' = highest_monthly_mean_variation(_data_frame.frames)
    /\ _data_frame' = FrameList(TablesAfter(_data_frame.frames))
    /\ UNCHANGED <<path2file, ticker, api_key, env_key, _api_key, to_iterate, response,
                   requests_log, _json_metadata, _json_data, json_calls, pc, err, trace>>

ToPandas ==
    /\ pc = "ready"
    /\ call' = Called("to_pandas", PyNone, PyNone)
    /\ result' = to_pandas(_data_frame.frames)
    /\ _data_frame' = FrameList(TablesAfter(_data_frame.frames))
    /\ UNCHANGED <<path2file, ticker, api_key, env_key, _api_key, to_iterate, response,
                   requests_log, _json_metadata, _json_data, json_calls, pc, err, trace>>

\* to_csv: any of the writes may fail with IOError or PermissionError.
ToCsv ==
    /\ pc = "ready"
    /\ Len(path2file) + Len(_data_frame.frames) <= MaxWritten
    /\ \E failed \in 0..Len(_data_frame.frames) :
         /\ call' = Called("to_csv", PyNone, PyNone)
         /\ result' = to_csv(_data_frame.frames, failed)
         /\ path2file' = WriteAppend(path2file, ToCsvWritten(_data_frame.frames, failed))
    /\ _data_frame' = FrameList(TablesAfter(_data_frame.frames))
    /\ UNCHANGED <<ticker, api_key, env_key, _api_key, to_iterate, response,
                   requests_log, _json_metadata, _json_data, json_calls, pc, err, trace>>

QueryInit == Constructed(FewClients)

QueryNext ==
    \/ DailyPrice
    \/ DailyVolume
    \/ YearlyDividends
    \/ YearlyDividendsPerQuarter
    \/ HighestDailyVariation
    \/ HighestMonthlyMeanVariation
    \/ ToPandas
    \/ ToCsv

\* Every method, called in any order.
SpecQuery == QueryInit /\ [][QueryNext]_vars

TableInit == Constructed(QueryClients)

DailyNext ==
    \/ DailyPrice
    \/ DailyVolume

YearlyNext ==
    \/ YearlyDividends
    \/ YearlyDividendsPerQuarter

VariationNext ==
    \/ HighestDailyVariation
    \/ HighestMonthlyMeanVariation

\* One family of methods on the larger set of tables.
SpecDaily == TableInit /\ [][DailyNext]_vars
SpecYearly == TableInit /\ [][YearlyNext]_vars
VariationInit == Constructed(FewClients \cup {<<d>> : d \in VariationPayloads})
SpecVariation == VariationInit /\ [][VariationNext]_vars

\* The caller of to_pandas writes a value into a cell of a table of the
\* list it was handed: df.iloc[k, j] = value.
SetCell(data, k, name, cell) == [data EXCEPT !.rows[k].cells[name] = cell]

\* response.append(data) puts the client's own DataFrame in the returned
\* list: a write into the returned table is a write into the table held.
HeldAfter(frames, i, table) == [frames EXCEPT ![i] = table]

MutateReturned ==
    /\ pc = "ready"
    /\ call.method = "to_pandas"
    /\ result.kind = "returned"
    /\ \E i \in 1..Len(result.value) :
         /\ Len(result.value[i].rows) >= 1
         /\ LET table == SetCell(result.value[i], 1, "close", Num(0))
            IN  /\ table # result.value[i]
                /\ result' = [result EXCEPT !.value[i] = table]
                /\ _data_frame' = FrameList(HeldAfter(_data_frame.frames, i, table))
    /\ call' = Called("caller_write", PyNone, PyNone)
    /\ UNCHANGED <<path2file, ticker, api_key, env_key, _api_key, to_iterate, response,
                   requests_log, _json_metadata, _json_data, json_calls, pc, err, trace>>

CallerNext ==
    \/ ToPandas
    \/ MutateReturned
    \/ DailyPrice

SpecCaller == QueryInit /\ [][CallerNext]_vars

(***************************************************************************)
(* Claims on the methods of a constructed client                           *)
(***************************************************************************)
Frames == _data_frame.frames

\* C12: after a successful construction no call of daily_price,
\* daily_volume, yearly_dividends, yearly_dividends_per_quarter,
\* highest_daily_variation, highest_monthly_mean_variation, to_pandas or
\* to_csv changes a table of the client, whether the call returns or
\* raises: every step of every sequence of calls leaves self._data_frame as
\* the construction built it.
C12_TablesUnchanged == [][_data_frame' = _data_frame]_vars

C12_Witness ==
    /\ result.kind = "raised"
    /\ result.exc = "FinanceClientParamError"
    /\ path2file # <<>>
    /\ Len(Frames) = 2
    /\ _data_frame = FrameList(BuildLoop(_json_data, 1, <<>>).frames)

DailyMethods == {"daily_price", "daily_volume"}
DailyColumn == IF call.method = "daily_price" THEN "close" ELSE "volume"

\* d1 <= d <= d2
Between(d, d1, d2) == ~DateLt(d, d1) /\ ~DateLt(d2, d)

\* The rows of a series dated within [d1, d2], in the order of the series.
Within(series, d1, d2) == SelectSeq(series, LAMBDA e : Between(e.index, d1, d2))

\* C13: for calendar dates d1 <= d2 (d1 = d2 included), daily_price(d1, d2)
\* and daily_volume(d1, d2) raise nothing and return, for every ticker,
\* exactly the rows of the unrestricted close (volume) series whose date d
\* satisfies d1 <= d <= d2, in the same order, the rows dated d1 or d2
\* included.
C13_RangeIsInclusive ==
    (call.method \in DailyMethods /\ call.from.type = "date" /\ call.to.type = "date"
       /\ ~DateLt(call.to.date, call.from.date)) =>
        /\ result.kind = "returned"
        /\ Len(result.value) = Len(Frames)
        /\ \A i \in 1..Len(Frames) :
               result.value[i] =
                   Within(Column(Frames[i], DailyColumn), call.from.date, call.to.date)

C13_Witness ==
    /\ call.method = "daily_volume"
    /\ call.from.type = "date" /\ call.to.type = "date"
    /\ DateLt(call.from.date, call.to.date)
    /\ Len(Frames) = 1
    /\ Len(Frames[1].rows) = 3
    /\ result.kind = "returned"
    /\ Len(result.value[1]) = 2
    /\ result.value[1][1].index = call.from.date
    /\ result.value[1][2].index = call.to.date

\* C14: with both bounds omitted daily_price() and daily_volume() raise
\* nothing and return, for every ticker, one entry per row of the table, the
\* k-th entry holding the date and the close (volume) value of the k-th
\* row, the dates in ascending order: no row is dropped.
C14_UnrestrictedIsWholeColumn ==
    (call.method \in DailyMethods /\ IsNone(call.from) /\ IsNone(call.to)) =>
        /\ result.kind = "returned"
        /\ Len(result.value) = Len(Frames)
        /\ \A i \in 1..Len(Frames) :
               /\ Len(result.value[i]) = Len(Frames[i].rows)
               /\ \A k \in 1..Len(Frames[i].rows) :
                      /\ result.value[i][k].index = Frames[i].rows[k].index
                      /\ result.value[i][k].value = Frames[i].rows[k].cells[DailyColumn]
               /\ \A k \in 1..(Len(result.value[i]) - 1) :
                      ~DateLt(result.value[i][k + 1].index, result.value[i][k].index)

C14_Witness ==
    /\ call.method = "daily_price"
    /\ IsNone(call.from) /\ IsNone(call.to)
    /\ Len(Frames) = 1
    /\ result.kind = "returned"
    /\ Len(result.value[1]) = 3
    /\ result.value[1][1].value # result.value[1][3].value
    /\ DateLt(result.value[1][1].index, result.value[1][3].index)

YearlyMethods == {"yearly_dividends", "yearly_dividends_per_quarter"}

\* The call was given a range whose from is strictly greater than its to.
InvertedRange ==
    \/ /\ call.method \in DailyMethods
       /\ call.from.type = "date" /\ call.to.type = "date"
       /\ DateLt(call.to.date, call.from.date)
    \/ /\ call.method \in YearlyMethods
       /\ call.from.type = "int" /\ call.to.type = "int"
       /\ call.from.num > call.to.num

\* C15: on any constructed client a call of daily_price, daily_volume,
\* yearly_dividends or yearly_dividends_per_quarter with from strictly
\* greater than to raises FinanceClientParamError and returns no result.
C15_InvertedRangeRaises ==
    InvertedRange => result.kind = "raised" /\ result.exc = "FinanceClientParamError"

\* A value that is given and is no dt.date: a string, a datetime.
NonDate(x) == x.type \notin {"NoneType", "date"}

\* C16: on a client with at least one ticker, daily_price and daily_volume
\* raise FinanceClientParamError when either bound is a value that is no
\* date, whether the other bound is a date or is omitted.
C16_NonDateBoundRaises ==
    (call.method \in DailyMethods /\ Len(Frames) > 0
       /\ (NonDate(call.from) \/ NonDate(call.to))) =>
        result.kind = "raised" /\ result.exc = "FinanceClientParamError"

\* The sum of the non-zero dividends of the rows of a table dated in year y.
DividendsOfYear(data, y) ==
    Total(NonZero(SelectSeq(Column(data, "dividend"), LAMBDA e : YearOf(e.index) = y)))

\* The call was given integers from_year <= to_year, or no year at all.
ValidYears ==
    \/ IsNone(call.from) /\ IsNone(call.to)
    \/ call.from.type = "int" /\ call.to.type = "int" /\ call.from.num <= call.to.num

\* C17: whenever yearly_dividends, called with a valid range of years or
\* with none, returns, for every ticker every row of the result is keyed by
\* January 1st of a year y and holds the sum of all non-zero dividends of
\* the table's rows dated in year y, a dividend on the last row of that
\* year included.
C17_YearRowIsSumOfYear ==
    (call.method = "yearly_dividends" /\ ValidYears /\ result.kind = "returned") =>
        \A i \in 1..Len(Frames) : \A k \in 1..Len(result.value[i]) :
            /\ result.value[i][k].index = <<YearOf(result.value[i][k].index), 1, 1>>
            /\ result.value[i][k].value =
                   Num(DividendsOfYear(Frames[i], YearOf(result.value[i][k].index)))

\* The index of every table of the client holds no date twice.
UniqueIndexes ==
    \A i \in 1..Len(Frames) : IsUnique(Column(Frames[i], "dividend"))

\* The years a yearly_dividends call is to report: the inclusive range it
\* was given, or with both years omitted the years from the first row's to
\* the last row's.
FirstYear(i) ==
    IF IsNone(call.from) THEN YearOf(Frames[i].rows[1].index) ELSE call.from.num
LastYear(i) ==
    IF IsNone(call.to) THEN YearOf(Frames[i].rows[Len(Frames[i].rows)].index)
    ELSE call.to.num

\* C18: on tables with no repeated date, yearly_dividends(from_year,
\* to_year) with integers from_year <= to_year, or with both years omitted,
\* returns for every ticker exactly one row per calendar year of the range
\* (to_year - from_year + 1 rows; first row's year to last row's year when
\* omitted), in year order, keyed by January 1st, a year without dividend
\* rows giving the total 0.
C18_OneRowPerYear ==
    (call.method = "yearly_dividends" /\ ValidYears /\ UniqueIndexes) =>
        /\ result.kind = "returned"
        /\ \A i \in 1..Len(Frames) :
               /\ Len(result.value[i]) = LastYear(i) - FirstYear(i) + 1
               /\ \A k \in 1..Len(result.value[i]) :
                      /\ result.value[i][k].index = <<FirstYear(i) + k - 1, 1, 1>>
                      /\ DividendsOfYear(Frames[i], FirstYear(i) + k - 1) = 0
                             => result.value[i][k].value = Num(0)

\* The dividend rows yearly_dividends_per_quarter is to return for table i:
\* those with a non-zero dividend dated from January 1st of from_year to
\* December 31st of to_year, every such row when both years are omitted.
DividendEvents(i) ==
    SelectSeq(Column(Frames[i], "dividend"),
              LAMBDA e : /\ e.value.v # 0
                         /\ IsNone(call.from)
                              \/ Between(e.index, <<call.from.num, 1, 1>>,
                                         <<call.to.num, 12, 31>>))

\* C19: yearly_dividends_per_quarter(from_year, to_year) with integers
\* from_year <= to_year returns, for every ticker, exactly the rows of the
\* table with a non-zero dividend dated between January 1st of from_year
\* and December 31st of to_year inclusive, one entry per row, unaggregated
\* and in date order; with both years omitted, every row with a non-zero
\* dividend.
C19_QuarterRowsAreDividendEvents ==
    (call.method = "yearly_dividends_per_quarter" /\ ValidYears) =>
        /\ result.kind = "returned"
        /\ Len(result.value) = Len(Frames)
        /\ \A i \in 1..Len(Frames) : result.value[i] = DividendEvents(i)

C19_Witness ==
    /\ call.method = "yearly_dividends_per_quarter"
    /\ call.from.type = "int" /\ call.to.type = "int"
    /\ Len(Frames) = 1
    /\ Len(Frames[1].rows) = 3
    /\ \A k \in 1..3 : Frames[1].rows[k].cells["dividend"] # Num(0)
    /\ result.kind = "returned"
    /\ Len(result.value[1]) = 2
    /\ result.value[1][1].index = <<2019, 12, 31>>
    /\ result.value[1][2].index = <<2020, 1, 1>>
    /\ result.value[1][1].value # result.value[1][2].value

\* high - low of the k-th row of a table.
Variation(data, k) == data.rows[k].cells["high"].v - data.rows[k].cells["low"].v

\* The chronologically first row whose high - low is the largest of the
\* table.
FirstLargest(data) ==
    CHOOSE k \in 1..Len(data.rows) :
        /\ \A j \in 1..Len(data.rows) : Variation(data, j) <= Variation(data, k)
        /\ \A j \in 1..(k - 1) : Variation(data, j) < Variation(data, k)

\* C20: highest_daily_variation() returns, for every ticker, the date, the
\* high, the low and the magnitude high - low of the row whose high - low
\* is the largest of the table, the chronologically first such row when
\* several share it; the returned magnitude is the returned high minus the
\* returned low.
C20_HighestIsLargestRow ==
    call.method = "highest_daily_variation" =>
        /\ result.kind = "returned"
        /\ \A i \in 1..Len(Frames) :
               LET k == FirstLargest(Frames[i])
                   r == result.value[i]
               IN  /\ r.date = Frames[i].rows[k].index
                   /\ r.high = Frames[i].rows[k].cells["high"].v
                   /\ r.low = Frames[i].rows[k].cells["low"].v
                   /\ r.maxdiff = Variation(Frames[i], k)
                   /\ r.maxdiff = r.high - r.low

\* C21: on a table with a single row highest_daily_variation() raises
\* nothing and returns that row's date, high and low with the variation
\* high - low of that row, whatever its high and low are.
C21_SingleDayVariation ==
    call.method = "highest_daily_variation" =>
        /\ result.kind = "returned"
        /\ \A i \in 1..Len(Frames) :
               Len(Frames[i].rows) = 1 =>
                   /\ result.value[i].date = Frames[i].rows[1].index
                   /\ result.value[i].high = Frames[i].rows[1].cells["high"].v
                   /\ result.value[i].low = Frames[i].rows[1].cells["low"].v
                   /\ result.value[i].maxdiff = Variation(Frames[i], 1)

\* The calendar months that have at least one row in a table, the rows of
\* one month, and the sum of high - low over them.
MonthOf(d) == <<d[1], d[2]>>
MonthsOf(data) == {MonthOf(data.rows[k].index) : k \in 1..Len(data.rows)}
RowsOfMonth(data, m) == {k \in 1..Len(data.rows) : MonthOf(data.rows[k].index) = m}

RECURSIVE SumVariation(_, _)
SumVariation(data, S) ==
    IF S = {} THEN 0
    ELSE LET k == CHOOSE x \in S : TRUE
         IN  Variation(data, k) + SumVariation(data, S \ {k})

\* mean(m1) <= mean(m2) and mean(m1) < mean(m2), without dividing.
MeanLeq(data, m1, m2) ==
    SumVariation(data, RowsOfMonth(data, m1)) * Cardinality(RowsOfMonth(data, m2))
        <= SumVariation(data, RowsOfMonth(data, m2)) * Cardinality(RowsOfMonth(data, m1))
MonthBefore(m1, m2) == m1[1] < m2[1] \/ (m1[1] = m2[1] /\ m1[2] < m2[2])

\* The chronologically first month whose mean is the largest.
BestMonth(data) ==
    CHOOSE m \in MonthsOf(data) :
        /\ \A o \in MonthsOf(data) : MeanLeq(data, o, m)
        /\ \A o \in MonthsOf(data) : MonthBefore(o, m) => ~MeanLeq(data, m, o)

\* C22: highest_monthly_mean_variation() raises nothing and returns, for
\* every ticker, the first day of the chronologically first calendar month
\* whose mean of high - low over its rows is the largest among the months
\* that have a row, together with that month's mean.
C22_HighestMonthIsLargestMean ==
    call.method = "highest_monthly_mean_variation" =>
        /\ result.kind = "returned"
        /\ \A i \in 1..Len(Frames) :
               LET m == BestMonth(Frames[i])
                   r == result.value[i]
               IN  /\ r.date = <<m[1], m[2], 1>>
                   /\ r.den > 0
                   /\ r.num * Cardinality(RowsOfMonth(Frames[i], m))
                          = SumVariation(Frames[i], RowsOfMonth(Frames[i], m)) * r.den

\* The method of the last call, with its arguments, on the tables given.
CallOn(frames) ==
    CASE call.method = "daily_price" -> daily_price(frames, call.from, call.to)
      [] call.method = "daily_volume" -> daily_volume(frames, call.from, call.to)
      [] call.method = "yearly_dividends" -> yearly_dividends(frames, call.from, call.to)
      [] call.method = "yearly_dividends_per_quarter" ->
             yearly_dividends_per_quarter(frames, call.from, call.to)
      [] call.method = "highest_daily_variation" -> highest_daily_variation(frames)
      [] call.method = "highest_monthly_mean_variation" ->
             highest_monthly_mean_variation(frames)
      [] call.method = "to_pandas" -> to_pandas(frames)

PerTickerMethods ==
    {"daily_price", "daily_volume", "yearly_dividends", "yearly_dividends_per_quarter",
     "highest_daily_variation", "highest_monthly_mean_variation", "to_pandas"}

\* C23: on a client of n tickers every analytics method and to_pandas,
\* when it returns, returns a sequence of exactly n results, the i-th being
\* what the same call returns on a client holding the i-th table alone.
C23_OneResultPerTicker ==
    (call.method \in PerTickerMethods /\ result.kind = "returned") =>
        /\ Len(result.value) = Len(ticker)
        /\ \A i \in 1..Len(Frames) :
               /\ CallOn(<<Frames[i]>>).kind = "returned"
               /\ result.value[i] = CallOn(<<Frames[i]>>).value[1]

C23_Witness ==
    /\ call.method = "to_pandas"
    /\ result.kind = "returned"
    /\ Len(ticker) = 2
    /\ Len(result.value) = 2
    /\ result.value[1] # result.value[2]
    /\ result.value[2] = Frames[2]


\* ---------------------------------------------------------------------
\* C24: after to_csv wrote a file that did not exist before, reading the
\* file back gives, for each ticker, a table whose index, columns and
\* values equal the ticker's table returned by to_pandas.
C24_CsvRoundTrip ==
    [][(call'.method = "to_csv" /\ result'.kind = "returned" /\ path2file = <<>>) =>
           \A i \in 1..Len(Frames) :
               /\ ReadCsv(LinesOf(path2file')).kind = "returned"
               /\ ReadCsv(LinesOf(path2file')).value = to_pandas(Frames).value[i]]_vars


\* ---------------------------------------------------------------------
\* C25: to_csv adds the tables to the end of the file in ticker order;
\* when the write of a table fails it raises FinanceClientIOError and
\* the file holds only the tables before it; when no write fails it
\* returns the path it was given.
C25_ExportInTickerOrder ==
    [][call'.method = "to_csv" =>
           \E n \in 0..Len(Frames) :
               /\ path2file' = path2file \o [i \in 1..n |-> CsvOf(Frames[i])]
               /\ result' = IF n = Len(Frames)
                            THEN Returned(<<"path2file">>)
                            ELSE Raised("FinanceClientIOError")]_vars

C25_Witness ==
    /\ call.method = "to_csv"
    /\ result = Raised("FinanceClientIOError")
    /\ Len(Frames) = 2
    /\ Frames[1] # Frames[2]
    /\ path2file = <<CsvOf(Frames[1])>>


\* ---------------------------------------------------------------------
\* C26: a write by the caller into a table returned by to_pandas leaves
\* every table held by the client as it was, and so daily_price returns
\* afterwards what it returned before.
C26_ReturnedAreCopies ==
    [][call'.method = "caller_write" =>
           /\ _data_frame' = _data_frame
           /\ daily_price(_data_frame'.frames, PyNone, PyNone)
                  = daily_price(_data_frame.frames, PyNone, PyNone)]_vars


C28_ClientHoldsATicker ==
    pc = "ready" =>
        /\ Len(ticker) >= 1
        /\ Len(_data_frame.frames) >= 1


\* ---------------------------------------------------------------------
\* C29: the key is resolved and checked before the first request: a
\* construction that raised FinanceClientInvalidAPIKey made no request,
\* whatever the ticker list, and a request was made only with a key that
\* is a non-empty string.
C29_KeyCheckedBeforeAnyFetch ==
    /\ err.kind = "FinanceClientInvalidAPIKey" =>
           /\ requests_log = <<>>
           /\ response = <<>>
    /\ requests_log # <<>> => UsableKey(_api_key)

C29_Witness ==
    /\ err.kind = "FinanceClientInvalidAPIKey"
    /\ pc = "raised"
    /\ Len(ticker) = 2
    /\ requests_log = <<>>


\* ---------------------------------------------------------------------
\* C30: to_csv keeps what the file held: the lines of the file before a
\* step are the first lines of the file after it, and a successful to_csv
\* on a file that holds one export of the client leaves two consecutive
\* exports in it.
Export == [i \in 1..Len(Frames) |-> CsvOf(Frames[i])]

C30_ExportNeverTruncates ==
    [][/\ IsPrefix(LinesOf(path2file), LinesOf(path2file'))
       /\ (call'.method = "to_csv" /\ result'.kind = "returned" /\ path2file = Export) =>
              LinesOf(path2file') = LinesOf(Export) \o LinesOf(Export)]_vars

C30_Witness ==
    /\ call.method = "to_csv"
    /\ result.kind = "returned"
    /\ Len(Frames) = 1
    /\ path2file = Export \o Export
    /\ LinesOf(path2file) # LinesOf(Export)

====
